---- MODULE Spec2Model ----
(***************************************************************************)
(* Vec2D and Camera2D of CodeSample-2D_Line_of_Sight.cpp as a state       *)
(* machine.  The C++ type float is modelled as IEEE-754 binary32 with     *)
(* round-to-nearest-even: a value is a record [k, s, m, e] standing for   *)
(* (-1)^s * m * 2^e, with infinities and NaN as separate kinds.           *)
(***************************************************************************)
EXTENDS Integers, Sequences, FiniteSets, TLC

(***************************************************************************)
(* binary32 arithmetic                                                     *)
(***************************************************************************)

\* Smallest exponent of the unit in the last place (subnormals and zero).
EMin == -149
\* Largest exponent of the unit in the last place of a finite value.
EMax == 104

Mk(s, m, e) == [k |-> "fin", s |-> s, m |-> m, e |-> e]
NaN == [k |-> "nan", s |-> 0, m |-> 0, e |-> 0]
Inf(s) == [k |-> "inf", s |-> s, m |-> 0, e |-> 0]
Zero(s) == Mk(s, 0, EMin)

IsNaN(a) == a.k = "nan"
IsInf(a) == a.k = "inf"
IsZero(a) == a.k = "fin" /\ a.m = 0

RECURSIVE BitLen(_)
BitLen(n) == IF n = 0 THEN 0 ELSE 1 + BitLen(n \div 2)

\* The binary32 nearest to (-1)^s * (M + f) * 2^E, where 0 <= f < 1 and
\* f > 0 iff st (ties to even).  Callers pass M of at least 26 bits when st.
RoundPack(s, M, E, st) ==
  IF M = 0 THEN Zero(s)
  ELSE LET n == BitLen(M)
           r == IF E + (n - 24) < EMin THEN EMin - E ELSE n - 24
       IN IF r <= 0
          THEN IF E + r > EMax THEN Inf(s) ELSE Mk(s, M * (2^(-r)), E + r)
          ELSE IF r >= n + 2 THEN Zero(s)
          ELSE LET q == M \div (2^r)
                   rem == M % (2^r)
                   half == 2^(r - 1)
                   up == rem > half \/ (rem = half /\ (st \/ (q % 2) = 1))
                   q1 == IF up THEN q + 1 ELSE q
                   m2 == IF q1 = 2^24 THEN 2^23 ELSE q1
                   e2 == IF q1 = 2^24 THEN E + r + 1 ELSE E + r
               IN IF e2 > EMax THEN Inf(s) ELSE Mk(s, m2, e2)

\* A finite nonzero value with its significand shifted up to 24 bits.
Norm(a) ==
  LET sh == 24 - BitLen(a.m) IN [m |-> a.m * (2^sh), e |-> a.e - sh]

FromInt(n) == IF n < 0 THEN RoundPack(1, -n, 0, FALSE) ELSE RoundPack(0, n, 0, FALSE)

fneg(a) == IF IsNaN(a) THEN a ELSE [a EXCEPT !.s = 1 - a.s]

fabs(a) == IF IsNaN(a) THEN a ELSE [a EXCEPT !.s = 0]

\* a + b of two finite values
AddFinite(a, b) ==
  LET x == IF a.e >= b.e THEN a ELSE b
      y == IF a.e >= b.e THEN b ELSE a
      d == x.e - y.e
      X == x.m * 8
      Yf == y.m * 8
      Y == IF d > 27 THEN 0 ELSE Yf \div (2^d)
      st == IF d > 27 THEN y.m # 0 ELSE (Yf % (2^d)) # 0
      E == x.e - 3
  IN IF x.s = y.s THEN RoundPack(x.s, X + Y, E, st)
     ELSE IF X = Y /\ ~st THEN Zero(0)
     ELSE IF X > Y THEN RoundPack(x.s, IF st THEN X - Y - 1 ELSE X - Y, E, st)
     ELSE RoundPack(y.s, Y - X, E, st)

fadd(a, b) ==
  IF IsNaN(a) \/ IsNaN(b) THEN NaN
  ELSE IF IsInf(a) THEN (IF IsInf(b) /\ a.s # b.s THEN NaN ELSE a)
  ELSE IF IsInf(b) THEN b
  ELSE AddFinite(a, b)

fsub(a, b) == fadd(a, fneg(b))

\* a * b of two finite nonzero values: the 48-bit product in 12-bit limbs
MulFinite(s, a, b) ==
  LET x == Norm(a)
      y == Norm(b)
      a1 == x.m \div 4096
      b1 == x.m % 4096
      a2 == y.m \div 4096
      b2 == y.m % 4096
      mid == (a1 * b2) + (a2 * b1)
      los == ((mid % 4096) * 4096) + (b1 * b2)
      lo == los % (2^24)
      hi == (a1 * a2) + (mid \div 4096) + (los \div (2^24))
  IN RoundPack(s, (hi * 16) + (lo \div (2^20)), x.e + y.e + 20, (lo % (2^20)) # 0)

fmul(a, b) ==
  LET s == (a.s + b.s) % 2
  IN IF IsNaN(a) \/ IsNaN(b) THEN NaN
     ELSE IF IsInf(a) \/ IsInf(b)
          THEN (IF IsZero(a) \/ IsZero(b) THEN NaN ELSE Inf(s))
     ELSE IF IsZero(a) \/ IsZero(b) THEN Zero(s)
     ELSE MulFinite(s, a, b)

\* Six more quotient bits: <<quotient, remainder>> of (q * d + r) * 64 by d
DivStep(qr, d, bits) ==
  LET n == qr[2] * (2^bits)
  IN <<(qr[1] * (2^bits)) + (n \div d), n % d>>

\* a / b of two finite nonzero values: 26 quotient bits below the leading one
DivFinite(s, a, b) ==
  LET x == Norm(a)
      y == Norm(b)
      q0 == <<x.m \div y.m, x.m % y.m>>
      q1 == DivStep(q0, y.m, 6)
      q2 == DivStep(q1, y.m, 6)
      q3 == DivStep(q2, y.m, 6)
      q4 == DivStep(q3, y.m, 6)
      q5 == DivStep(q4, y.m, 2)
  IN RoundPack(s, q5[1], x.e - y.e - 26, q5[2] # 0)

fdiv(a, b) ==
  LET s == (a.s + b.s) % 2
  IN IF IsNaN(a) \/ IsNaN(b) THEN NaN
     ELSE IF IsInf(a) THEN (IF IsInf(b) THEN NaN ELSE Inf(s))
     ELSE IF IsInf(b) THEN Zero(s)
     ELSE IF IsZero(b) THEN (IF IsZero(a) THEN NaN ELSE Inf(s))
     ELSE IF IsZero(a) THEN Zero(s)
     ELSE DivFinite(s, a, b)

\* <<floor(sqrt(n)), n - floor(sqrt(n))^2>>, two bits of n at a time
RECURSIVE IsqrtRem(_)
IsqrtRem(n) ==
  IF n = 0 THEN <<0, 0>>
  ELSE LET p == IsqrtRem(n \div 4)
           rem == (4 * p[2]) + (n % 4)
           t == (4 * p[1]) + 1
       IN IF rem >= t THEN <<(2 * p[1]) + 1, rem - t>> ELSE <<2 * p[1], rem>>

\* k more result bits of the square root (the radicand continues with zeros)
RECURSIVE SqrtExt(_, _)
SqrtExt(p, k) ==
  IF k = 0 THEN p
  ELSE LET rem == 4 * p[2]
           t == (4 * p[1]) + 1
       IN SqrtExt(IF rem >= t THEN <<(2 * p[1]) + 1, rem - t>> ELSE <<2 * p[1], rem>>, k - 1)

\* sqrtf of a finite positive value
SqrtFinite(a) ==
  LET x == Norm(a)
      odd == (x.e % 2) # 0
      m1 == IF odd THEN 2 * x.m ELSE x.m
      e1 == IF odd THEN x.e - 1 ELSE x.e
      p == SqrtExt(IsqrtRem(m1), 14)
  IN RoundPack(0, p[1], (e1 \div 2) - 14, p[2] # 0)

fsqrt(a) ==
  IF IsNaN(a) THEN NaN
  ELSE IF IsZero(a) THEN a
  ELSE IF a.s = 1 THEN NaN
  ELSE IF IsInf(a) THEN a
  ELSE SqrtFinite(a)

\* Magnitude order of two non-NaN values
MagLt(a, b) ==
  IF IsInf(a) THEN FALSE
  ELSE IF IsInf(b) THEN TRUE
  ELSE a.e < b.e \/ (a.e = b.e /\ a.m < b.m)

feq(a, b) == ~IsNaN(a) /\ ~IsNaN(b) /\ ((IsZero(a) /\ IsZero(b)) \/ a = b)

flt(a, b) ==
  /\ ~IsNaN(a) /\ ~IsNaN(b)
  /\ ~(IsZero(a) /\ IsZero(b))
  /\ IF a.s # b.s THEN a.s = 1
     ELSE IF a.s = 0 THEN MagLt(a, b) ELSE MagLt(b, a)

fle(a, b) == flt(a, b) \/ feq(a, b)

fgt(a, b) == flt(b, a)

fne(a, b) == ~feq(a, b)

\* The value of a decimal literal n/d (n, d exactly representable)
Dec(n, d) == fdiv(FromInt(n), FromInt(d))

(***************************************************************************)
(* Constants and library functions                                         *)
(***************************************************************************)

PI_F == Dec(314159, 100000)
MAX_FLOAT_TOLERANCE == Dec(1, 10000)
\* std::numeric_limits<float>::max()
FLT_MAX == Mk(0, 2^24 - 1, EMax)

\* std::acos on the arguments the model reaches: the binary32 nearest to the
\* arc cosine.  Outside [-1, 1], and for NaN, the result is NaN.
AcosTable == {
    <<Mk(1, 8388608, -23), Mk(0, 13176795, -22)>>,
    <<Mk(1, 16777209, -24), Mk(0, 13172963, -22)>>,
    <<Mk(1, 16777208, -24), Mk(0, 13172699, -22)>>,
    <<Mk(1, 16451414, -24), Mk(0, 12348858, -22)>>,
    <<Mk(1, 15916266, -24), Mk(0, 11827276, -22)>>,
    <<Mk(1, 15005998, -24), Mk(0, 11232116, -22)>>,
    <<Mk(1, 11875128, -24), Mk(0, 9886786, -22)>>,
    <<Mk(1, 11863295, -24), Mk(0, 9882600, -22)>>,
    <<Mk(1, 11863290, -24), Mk(0, 9882598, -22)>>,
    <<Mk(1, 11863289, -24), Mk(0, 9882598, -22)>>,
    <<Mk(1, 11863284, -24), Mk(0, 9882596, -22)>>,
    <<Mk(1, 11863283, -24), Mk(0, 9882596, -22)>>,
    <<Mk(1, 11863278, -24), Mk(0, 9882594, -22)>>,
    <<Mk(1, 11863277, -24), Mk(0, 9882594, -22)>>,
    <<Mk(1, 11863271, -24), Mk(0, 9882592, -22)>>,
    <<Mk(1, 11851426, -24), Mk(0, 9878406, -22)>>,
    <<Mk(1, 11851416, -24), Mk(0, 9878402, -22)>>,
    <<Mk(1, 9306325, -24), Mk(0, 9054659, -22)>>,
    <<Mk(1, 15005998, -25), Mk(0, 8533076, -22)>>,
    <<Mk(1, 13161131, -26), Mk(0, 14832669, -23)>>,
    <<Mk(1, 8589800, -33), Mk(0, 13185183, -23)>>,
    <<Mk(1, 8581173, -33), Mk(0, 13185175, -23)>>,
    <<Mk(0, 0, -149), Mk(0, 13176795, -23)>>,
    <<Mk(0, 8581173, -33), Mk(0, 13168415, -23)>>,
    <<Mk(0, 8589800, -33), Mk(0, 13168406, -23)>>,
    <<Mk(0, 13161131, -26), Mk(0, 11520921, -23)>>,
    <<Mk(0, 15005998, -25), Mk(0, 9287437, -23)>>,
    <<Mk(0, 9306325, -24), Mk(0, 16488543, -24)>>,
    <<Mk(0, 11851416, -24), Mk(0, 13193569, -24)>>,
    <<Mk(0, 11851426, -24), Mk(0, 13193555, -24)>>,
    <<Mk(0, 11863271, -24), Mk(0, 13176812, -24)>>,
    <<Mk(0, 11863277, -24), Mk(0, 13176803, -24)>>,
    <<Mk(0, 11863278, -24), Mk(0, 13176802, -24)>>,
    <<Mk(0, 11863283, -24), Mk(0, 13176795, -24)>>,
    <<Mk(0, 11863284, -24), Mk(0, 13176794, -24)>>,
    <<Mk(0, 11863289, -24), Mk(0, 13176786, -24)>>,
    <<Mk(0, 11863290, -24), Mk(0, 13176785, -24)>>,
    <<Mk(0, 11863295, -24), Mk(0, 13176778, -24)>>,
    <<Mk(0, 11875128, -24), Mk(0, 13160035, -24)>>,
    <<Mk(0, 15005998, -24), Mk(0, 15557433, -25)>>,
    <<Mk(0, 15916266, -24), Mk(0, 10796148, -25)>>,
    <<Mk(0, 16451414, -24), Mk(0, 13246988, -26)>>,
    <<Mk(0, 16777208, -24), Mk(0, 8388608, -33)>>,
    <<Mk(0, 16777209, -24), Mk(0, 15693649, -34)>>,
    <<Mk(0, 8388608, -23), Mk(0, 0, -149)>> }

acosf(x) ==
  IF IsNaN(x) \/ IsInf(x) \/ flt(FromInt(1), fabs(x)) THEN NaN
  ELSE (CHOOSE p \in AcosTable : feq(p[1], x))[2]

(***************************************************************************)
(* class Vec2D                                                             *)
(***************************************************************************)

Vec2D(x, y) == [m_x |-> x, m_y |-> y]

DotProduct(this, vecIn) ==
  LET xComp == fmul(this.m_x, vecIn.m_x)
      yComp == fmul(this.m_y, vecIn.m_y)
  IN fadd(xComp, yComp)

GetMagnitude(this) ==
  fsqrt(fadd(fmul(this.m_x, this.m_x), fmul(this.m_y, this.m_y)))

\* GetNormalized without the test "magnitude != 0"
GetNormalized_NoGuard(this) ==
  LET magnitude == GetMagnitude(this)
  IN Vec2D(fdiv(this.m_x, magnitude), fdiv(this.m_y, magnitude))

GetNormalized(this) ==
  LET magnitude == GetMagnitude(this)
  IN IF fne(magnitude, FromInt(0))
     THEN Vec2D(fdiv(this.m_x, magnitude), fdiv(this.m_y, magnitude))
     ELSE Vec2D(FromInt(0), FromInt(0))

\* operator== with both comparisons turned round
OpEq_Flipped(this, rhs) ==
  /\ flt(MAX_FLOAT_TOLERANCE, fabs(fsub(this.m_x, rhs.m_x)))
  /\ flt(MAX_FLOAT_TOLERANCE, fabs(fsub(this.m_y, rhs.m_y)))

\* operator==
OpEq(this, rhs) ==
  /\ fgt(MAX_FLOAT_TOLERANCE, fabs(fsub(this.m_x, rhs.m_x)))
  /\ fgt(MAX_FLOAT_TOLERANCE, fabs(fsub(this.m_y, rhs.m_y)))

\* operator+
OpPlus(this, rhs) == Vec2D(fadd(this.m_x, rhs.m_x), fadd(this.m_y, rhs.m_y))

\* operator-
OpMinus(this, rhs) == Vec2D(fsub(this.m_x, rhs.m_x), fsub(this.m_y, rhs.m_y))

(***************************************************************************)
(* class Camera2D                                                          *)
(***************************************************************************)

SetPosition(this, position) == [this EXCEPT !.m_position = position]

SetOrientation(this, orientation) ==
  [this EXCEPT !.m_orientation = GetNormalized(orientation)]

SetFieldOfView(this, angleRad) == [this EXCEPT !.m_fieldOfView = angleRad]

SetViewDistance(this, distance) == [this EXCEPT !.m_viewDistance = distance]

Camera2D(position, orientation, fieldOfView, viewDistance) ==
  SetOrientation([m_position |-> position,
                  m_orientation |-> Vec2D(FromInt(0), FromInt(0)),
                  m_fieldOfView |-> fabs(fieldOfView),
                  m_viewDistance |-> fabs(viewDistance)],
                 orientation)

\* CanSeeTarget without the early return for a target on the camera's position
CanSeeTarget_NoSelfCheck(this, targetPosition) ==
  LET vectorToTarget == OpMinus(targetPosition, this.m_position)
      distanceToTarget == GetMagnitude(vectorToTarget)
  IN IF fle(distanceToTarget, this.m_viewDistance)
     THEN LET dot == DotProduct(this.m_orientation, vectorToTarget)
              angleToTarget == acosf(fdiv(dot, distanceToTarget))
          IN [ret |-> flt(angleToTarget, fdiv(this.m_fieldOfView, FromInt(2))),
              divided |-> TRUE, divisor |-> distanceToTarget]
     ELSE [ret |-> FALSE, divided |-> FALSE, divisor |-> NaN]

\* CanSeeTarget with the subtraction turned round: m_position - targetPosition
CanSeeTarget_Reversed(this, targetPosition) ==
  IF OpEq(targetPosition, this.m_position)
  THEN [ret |-> FALSE, divided |-> FALSE, divisor |-> NaN]
  ELSE LET vectorToTarget == OpMinus(this.m_position, targetPosition)
           distanceToTarget == GetMagnitude(vectorToTarget)
       IN IF fle(distanceToTarget, this.m_viewDistance)
          THEN LET dot == DotProduct(this.m_orientation, vectorToTarget)
                   angleToTarget == acosf(fdiv(dot, distanceToTarget))
               IN [ret |-> flt(angleToTarget, fdiv(this.m_fieldOfView, FromInt(2))),
                   divided |-> TRUE, divisor |-> distanceToTarget]
          ELSE [ret |-> FALSE, divided |-> FALSE, divisor |-> NaN]

\* The run of CanSeeTarget: the value returned, whether the division
\* dot / distanceToTarget was executed, and its divisor when it was.
CanSeeTarget(this, targetPosition) ==
  IF OpEq(targetPosition, this.m_position)
  THEN [ret |-> FALSE, divided |-> FALSE, divisor |-> NaN]
  ELSE LET vectorToTarget == OpMinus(targetPosition, this.m_position)
           distanceToTarget == GetMagnitude(vectorToTarget)
       IN IF fle(distanceToTarget, this.m_viewDistance)
          THEN LET dot == DotProduct(this.m_orientation, vectorToTarget)
                   angleToTarget == acosf(fdiv(dot, distanceToTarget))
               IN [ret |-> flt(angleToTarget, fdiv(this.m_fieldOfView, FromInt(2))),
                   divided |-> TRUE, divisor |-> distanceToTarget]
          ELSE [ret |-> FALSE, divided |-> FALSE, divisor |-> NaN]

(***************************************************************************)
(* Arguments the caller may pass                                           *)
(***************************************************************************)

Origin == Vec2D(FromInt(0), FromInt(0))

\* Half the tolerance: 0.00005f
HalfTol == Dec(5, 100000)

Positions == {Origin, Vec2D(FromInt(50), FromInt(50))}

\* (0, 2^-100) is so short that its squared length underflows to zero.
Orientations ==
  { Vec2D(FromInt(0), FromInt(1)), Vec2D(FromInt(0), FromInt(0)),
    Vec2D(FromInt(2), FromInt(0)), Vec2D(FromInt(12), FromInt(12)),
    Vec2D(FromInt(0), Mk(0, 2^23, -123)) }

\* Mk(0, 13176794, -22) is 3.14159250f, the largest float below pi.
FieldsOfView ==
  { PI_F, fdiv(PI_F, FromInt(2)), fneg(fdiv(PI_F, FromInt(2))), FromInt(0),
    Mk(0, 13176794, -22), FromInt(4) }

ViewDistances ==
  { FLT_MAX, FromInt(100), FromInt(-100),
    GetMagnitude(Vec2D(FromInt(12), FromInt(12))) }

Targets ==
  { Vec2D(FromInt(0), FromInt(300)), Vec2D(FromInt(0), FromInt(50)),
    Vec2D(FromInt(0), FromInt(-50)), Vec2D(FromInt(50), FromInt(0)),
    Vec2D(FromInt(-50), FromInt(0)), Vec2D(FromInt(50), FromInt(50)),
    Vec2D(FromInt(50), Dec(501, 10)), Vec2D(FromInt(-50), FromInt(50)),
    Vec2D(FromInt(-50), Dec(501, 10)),
    Origin, Vec2D(HalfTol, FromInt(0)), Vec2D(HalfTol, fneg(HalfTol)),
    Vec2D(MAX_FLOAT_TOLERANCE, FromInt(0)),
    Vec2D(FromInt(0), FromInt(100)), Vec2D(FromInt(12), FromInt(12)),
    Vec2D(Dec(5000005, 100000), FromInt(50)) }

(***************************************************************************)
(* The camera and its caller                                               *)
(***************************************************************************)

VARIABLES
  cam,    \* the Camera2D object
  given,  \* the orientation, field of view and view distance last passed in
  call    \* the last member function called, and what it returned

vars == <<cam, given, call>>

NoReturn(op) ==
  [op |-> op, target |-> Origin, ret |-> FALSE, divided |-> FALSE, divisor |-> NaN]

Init ==
  \E position \in Positions, orientation \in Orientations,
     fieldOfView \in FieldsOfView, viewDistance \in ViewDistances :
    /\ cam = Camera2D(position, orientation, fieldOfView, viewDistance)
    /\ given = [orientation |-> orientation, fieldOfView |-> fieldOfView,
                viewDistance |-> viewDistance]
    /\ call = NoReturn("Camera2D")

DoSetPosition(position) ==
  /\ cam' = SetPosition(cam, position)
  /\ call' = NoReturn("SetPosition")
  /\ UNCHANGED given

DoSetOrientation(orientation) ==
  /\ cam' = SetOrientation(cam, orientation)
  /\ given' = [given EXCEPT !.orientation = orientation]
  /\ call' = NoReturn("SetOrientation")

DoSetFieldOfView(angleRad) ==
  /\ cam' = SetFieldOfView(cam, angleRad)
  /\ given' = [given EXCEPT !.fieldOfView = angleRad]
  /\ call' = NoReturn("SetFieldOfView")

DoSetViewDistance(distance) ==
  /\ cam' = SetViewDistance(cam, distance)
  /\ given' = [given EXCEPT !.viewDistance = distance]
  /\ call' = NoReturn("SetViewDistance")

\* CanSeeTarget halving the field of view in place (m_fieldOfView /= 2.0f)
DoCanSeeTarget_HalvesFieldOfView(targetPosition) ==
  /\ call' = [op |-> "CanSeeTarget", target |-> targetPosition]
               @@ CanSeeTarget(cam, targetPosition)
  /\ cam' = [cam EXCEPT !.m_fieldOfView = fdiv(cam.m_fieldOfView, FromInt(2))]
  /\ UNCHANGED given

DoCanSeeTarget(targetPosition) ==
  /\ call' = [op |-> "CanSeeTarget", target |-> targetPosition]
               @@ CanSeeTarget(cam, targetPosition)
  /\ UNCHANGED <<cam, given>>

Next ==
  \/ \E position \in Positions : DoSetPosition(position)
  \/ \E orientation \in Orientations : DoSetOrientation(orientation)
  \/ \E angleRad \in FieldsOfView : DoSetFieldOfView(angleRad)
  \/ \E distance \in ViewDistances : DoSetViewDistance(distance)
  \/ \E targetPosition \in Targets : DoCanSeeTarget(targetPosition)

Spec == Init /\ [][Next]_vars

(***************************************************************************)
(* Properties                                                              *)
(***************************************************************************)

Queried == call.op = "CanSeeTarget"

\* |a - b| < MAX_FLOAT_TOLERANCE
Near(a, b) == flt(fabs(fsub(a, b)), MAX_FLOAT_TOLERANCE)

\* The target of the last query is within the tolerance of the camera's
\* position on both axes.
Coincident ==
  /\ Near(call.target.m_x, cam.m_position.m_x)
  /\ Near(call.target.m_y, cam.m_position.m_y)

\* From the camera to the target of the last query
ToTarget ==
  Vec2D(fsub(call.target.m_x, cam.m_position.m_x),
        fsub(call.target.m_y, cam.m_position.m_y))

Length(v) == fsqrt(fadd(fmul(v.m_x, v.m_x), fmul(v.m_y, v.m_y)))

Dot(a, b) == fadd(fmul(a.m_x, b.m_x), fmul(a.m_y, b.m_y))

Cross(a, b) == fsub(fmul(a.m_x, b.m_y), fmul(a.m_y, b.m_x))

HalfFieldOfView == fdiv(cam.m_fieldOfView, FromInt(2))

InRange == fle(Length(ToTarget), cam.m_viewDistance)

\* The target lies exactly in the direction the camera faces.
DeadAhead ==
  /\ feq(Cross(cam.m_orientation, ToTarget), FromInt(0))
  /\ flt(FromInt(0), Dot(cam.m_orientation, ToTarget))

\* The unsigned angle between the orientation and the direction to the
\* target: 0 for a target dead ahead, otherwise the arc cosine of the dot
\* product of the orientation with the unit direction.
Angle ==
  IF DeadAhead THEN FromInt(0)
  ELSE acosf(fdiv(Dot(cam.m_orientation, ToTarget), Length(ToTarget)))

UnitLength(v) == Near(Length(v), FromInt(1))

\* The camera of the self-test: at the origin, facing (0,1), 90 degrees, range 100
cam0 ==
  [m_position |-> Origin, m_orientation |-> Vec2D(FromInt(0), FromInt(1)),
   m_fieldOfView |-> fdiv(PI_F, FromInt(2)), m_viewDistance |-> FromInt(100)]

\* C1: CanSeeTarget returns false for every target whose x and y are each
\* within MAX_FLOAT_TOLERANCE of the camera position's, whatever the
\* camera's orientation, field of view and view distance.
C1_OwnPositionNotSeen == (Queried /\ Coincident) => ~call.ret

\* A query of a target near the camera's position, but not on it, that a
\* camera facing it with an open field of view and unlimited range answered.
C1_Witness ==
  /\ Queried /\ Coincident /\ call.target # cam.m_position
  /\ DeadAhead /\ InRange /\ flt(FromInt(0), HalfFieldOfView)
  /\ ~call.ret

\* C2 as claimed: a target farther than viewDistance is not seen, and a
\* target at exactly viewDistance is seen whenever its angle to the
\* orientation is less than half the field of view.
C2_AsClaimed ==
  Queried =>
    /\ fgt(Length(ToTarget), cam.m_viewDistance) => ~call.ret
    /\ (feq(Length(ToTarget), cam.m_viewDistance) /\ flt(Angle, HalfFieldOfView))
         => call.ret

\* C3 as claimed: an in-range target off the camera's position is seen iff
\* its angle to the orientation is less than half the field of view; the
\* self-test camera does not see (50,50) and (-50,50) and sees (50,50.1)
\* and (-50,50.1).
C3_AsClaimed ==
  /\ (Queried /\ ~Coincident /\ InRange) => (call.ret <=> flt(Angle, HalfFieldOfView))
  /\ (Queried /\ cam = cam0) =>
       /\ call.target \in {Vec2D(FromInt(50), FromInt(50)),
                           Vec2D(FromInt(-50), FromInt(50))} => ~call.ret
       /\ call.target \in {Vec2D(FromInt(50), Dec(501, 10)),
                           Vec2D(FromInt(-50), Dec(501, 10))} => call.ret

\* What CanSeeTarget decides for a target off the camera's position: out of
\* range it is not seen; in range (distance <= viewDistance) it is seen iff
\* the arc cosine as computed, which is NaN when rounding takes
\* dot / distanceToTarget past 1, compares less than half the field of view.
AngleTestAsComputed ==
  (Queried /\ ~Coincident) =>
    call.ret = ( /\ InRange
                 /\ flt(acosf(fdiv(Dot(cam.m_orientation, ToTarget), Length(ToTarget))),
                        HalfFieldOfView) )

\* The self-test's edge-of-vision and range cases
SelfTestCases ==
  (Queried /\ cam = cam0) =>
    /\ call.target \in {Vec2D(FromInt(50), FromInt(50)), Vec2D(FromInt(-50), FromInt(50)),
                        Vec2D(FromInt(0), FromInt(300))} => ~call.ret
    /\ call.target \in {Vec2D(FromInt(50), Dec(501, 10)), Vec2D(FromInt(-50), Dec(501, 10)),
                        Vec2D(FromInt(0), FromInt(50)), Vec2D(FromInt(0), FromInt(100))}
         => call.ret

\* C4: with a unit orientation and 0 <= fieldOfView <= pi, a target whose
\* direction has a dot product <= 0 with the orientation is not seen; the
\* self-test camera sees none of (0,-50), (50,0), (-50,0).
\* (fieldOfView <= pi iff fieldOfView < 3.14159274f, the float next above pi.)
C4_BehindNotSeen ==
  /\ ( /\ Queried
       /\ UnitLength(cam.m_orientation)
       /\ fle(FromInt(0), cam.m_fieldOfView)
       /\ flt(cam.m_fieldOfView, Mk(0, 13176795, -22))
       /\ fle(Dot(cam.m_orientation, ToTarget), FromInt(0)) ) => ~call.ret
  /\ ( /\ Queried
       /\ cam = cam0
       /\ call.target \in {Vec2D(FromInt(0), FromInt(-50)),
                           Vec2D(FromInt(50), FromInt(0)),
                           Vec2D(FromInt(-50), FromInt(0))} ) => ~call.ret

\* A target at right angles to a unit orientation, in range, asked of a camera
\* whose field of view is the largest float below pi.
C4_Witness ==
  /\ Queried /\ ~Coincident /\ InRange
  /\ UnitLength(cam.m_orientation)
  /\ cam.m_fieldOfView = Mk(0, 13176794, -22)
  /\ feq(Dot(cam.m_orientation, ToTarget), FromInt(0))
  /\ ~call.ret

\* C5 as claimed: the stored orientation always has magnitude 1.
C5_AsClaimed == UnitLength(cam.m_orientation)

\* C6 as claimed: the stored field of view is the absolute value of the
\* field of view last passed in.
C6_AsClaimed == cam.m_fieldOfView = fabs(given.fieldOfView)

\* C7 as claimed: the stored view distance is the absolute value of the
\* view distance last passed in.
C7_AsClaimed == cam.m_viewDistance = fabs(given.viewDistance)

\* C8: GetNormalized of a vector whose magnitude is exactly 0 is (0,0), with
\* no division (a division 0/0 would leave NaN); of any other vector it is
\* each component divided by the magnitude.  The stored orientation is
\* GetNormalized of the orientation last passed in.
C8_NormalizedOrZero ==
  LET v == given.orientation
      magnitude == Length(v)
  IN cam.m_orientation =
       IF feq(magnitude, FromInt(0)) THEN Vec2D(FromInt(0), FromInt(0))
       ELSE Vec2D(fdiv(v.m_x, magnitude), fdiv(v.m_y, magnitude))

\* SetOrientation was called with a vector that is not (0,0) but whose
\* magnitude is exactly 0, and stored (0,0).
C8_Witness ==
  /\ call.op = "SetOrientation"
  /\ given.orientation # Origin
  /\ feq(Length(given.orientation), FromInt(0))
  /\ cam.m_orientation = Origin

\* C9: a call of CanSeeTarget changes neither the camera nor what the caller
\* passed, and returns a value that the camera's four fields and the target
\* determine.
C9_QueryIsPure ==
  [][call'.op = "CanSeeTarget" =>
       /\ cam' = cam
       /\ given' = given
       /\ call'.target \in Targets
       /\ call'.ret = CanSeeTarget(cam, call'.target).ret]_vars

\* A query answered true by a camera that stores the normalised form of a
\* longer orientation.
C9_Witness ==
  /\ Queried /\ call.ret
  /\ cam.m_orientation # given.orientation

\* C10: whenever CanSeeTarget executes dot / distanceToTarget the divisor is
\* greater than 0, also when the stored orientation is the zero vector.
C10_DivisorPositive == (Queried /\ call.divided) => flt(FromInt(0), call.divisor)

\* The division was executed for a target exactly MAX_FLOAT_TOLERANCE from
\* the position of a camera whose stored orientation is the zero vector.
C10_Witness ==
  /\ Queried /\ call.divided
  /\ cam.m_orientation = Origin
  /\ feq(fabs(ToTarget.m_x), MAX_FLOAT_TOLERANCE) /\ IsZero(ToTarget.m_y)
====
